---------------------------- MODULE Spec2Model ----------------------------
(***************************************************************************)
(* The two lint rules of the repository as state machines:                 *)
(*                                                                         *)
(*   mocha-no-side-effect-code  (MochaNoSideEffectCodeRuleWalker)  - Spec  *)
(*   no-stateless-class         (NoStatelessClassRuleWalker)  - ClassSpec  *)
(*                                                                         *)
(* A syntax tree is a nested record.  The text of a node is the sequence   *)
(* of its tokens, an offset counts tokens, and a node's start and width    *)
(* are the offset of its first token and the number of its tokens.  The    *)
(* call stack of the recursive walk is the variable stack: one frame per   *)
(* pending visitNode call, per pending rest of a handler.                  *)
(***************************************************************************)
EXTENDS Integers, Sequences, FiniteSets, TLC

VARIABLES
    pc,            \* "new", "walking", "done", "configError"
    sourceFile,    \* the tree Rule.apply was handed
    ignoreRegex,   \* MochaNoSideEffectCodeRuleWalker.ignoreRegex
    isInDescribe,  \* MochaNoSideEffectCodeRuleWalker.isInDescribe
    failures,      \* the walker's list of failures, in the order added
    stack,         \* the pending calls of the walk, innermost first
    faults,        \* history: number of exceptions thrown so far
    faultTops,     \* history: top-level statements during which one was thrown
    hookSpans,     \* history: spans of the lifecycle-hook calls reached
    visits,        \* no-stateless-class: class declarations visited so far
    last           \* history: the handler that ran last, and what it saw

vars == <<pc, sourceFile, ignoreRegex, isInDescribe, failures, stack,
          faults, faultTops, hookSpans, visits, last>>

-----------------------------------------------------------------------------
(* Bounds of the model. *)

MaxStatements == 2   \* top-level statements of a test file
MaxDepth == 2        \* describe calls nested in one another
MaxFaults == 1       \* exceptions thrown during one run
MaxOptions == 2      \* entries of the rule's option list
MaxClasses == 2      \* class declarations visited in one run
MaxMembers == 2      \* members of a class declaration

-----------------------------------------------------------------------------
(* Syntax trees. *)

NoNode == [kind |-> "undefined"]

Identifier(t) == [kind |-> "Identifier", text |-> t]
NumericLiteral(t) == [kind |-> "NumericLiteral", text |-> t]
StringLiteral(t) == [kind |-> "StringLiteral", text |-> t]
TemplateLiteral(t) == [kind |-> "FirstTemplateToken", text |-> t]
PropertyAccess(e, name) ==
    [kind |-> "PropertyAccessExpression", expression |-> e, name |-> Identifier(name)]
Call(e, args) == [kind |-> "CallExpression", expression |-> e, arguments |-> args]
New(e, args) == [kind |-> "NewExpression", expression |-> e, arguments |-> args]
PrefixUnary(op, e) == [kind |-> "PrefixUnaryExpression", operator |-> op, operand |-> e]
TypeAssertion(t, e) == [kind |-> "TypeAssertionExpression", type |-> t, expression |-> e]
ArrayLiteral(es) == [kind |-> "ArrayLiteralExpression", elements |-> es]
ObjectLiteral(ps) == [kind |-> "ObjectLiteralExpression", properties |-> ps]
PropertyAssignment(n, e) ==
    [kind |-> "PropertyAssignment", name |-> Identifier(n), initializer |-> e]
ShorthandPropertyAssignment(n) ==
    [kind |-> "ShorthandPropertyAssignment", name |-> Identifier(n)]
SpreadAssignment(e) == [kind |-> "SpreadAssignment", expression |-> e]
Block(ss) == [kind |-> "Block", statements |-> ss]
MethodDeclaration(n, ss) ==
    [kind |-> "MethodDeclaration", name |-> Identifier(n), body |-> Block(ss)]
ArrowFunction(ss) == [kind |-> "ArrowFunction", body |-> Block(ss)]
FunctionExpression(ss) == [kind |-> "FunctionExpression", body |-> Block(ss)]
VariableDeclaration(n, e) ==
    [kind |-> "VariableDeclaration", name |-> Identifier(n), initializer |-> e]
VariableStatement(ds) ==
    [kind |-> "VariableStatement",
     declarationList |-> [kind |-> "VariableDeclarationList", declarations |-> ds]]
ExpressionStatement(e) == [kind |-> "ExpressionStatement", expression |-> e]
FunctionDeclaration(n, ss) ==
    [kind |-> "FunctionDeclaration", name |-> Identifier(n), body |-> Block(ss)]
ClassElement(k, mods) == [kind |-> k, modifiers |-> mods]
HeritageClause(t) == [kind |-> "HeritageClause", token |-> t]
ClassDeclaration(n, hs, ms) ==
    [kind |-> "ClassDeclaration", name |-> n, heritageClauses |-> hs, members |-> ms]
SourceFile(ss) == [kind |-> "SourceFile", statements |-> ss]

-----------------------------------------------------------------------------
(* The text of a node (getText), its width (getWidth), and where its      *)
(* children start (getStart).                                              *)

Tok(t) == [tok |-> t]
Sub(n) == [node |-> n]

RECURSIVE Separated(_, _)
Separated(ns, t) ==
    IF ns = <<>> THEN <<>>
    ELSE IF Len(ns) = 1 THEN <<Sub(ns[1])>>
    ELSE <<Sub(ns[1]), Tok(t)>> \o Separated(Tail(ns), t)

RECURSIVE All(_)
All(ns) == IF ns = <<>> THEN <<>> ELSE <<Sub(Head(ns))>> \o All(Tail(ns))

RECURSIVE Toks(_)
Toks(ts) == IF ts = <<>> THEN <<>> ELSE <<Tok(Head(ts))>> \o Toks(Tail(ts))

NodeArray(ns) == [kind |-> "NodeArray", elements |-> ns]

HeritageTokens(hs) ==
    IF hs = NoNode THEN <<>>
    ELSE [i \in 1..(2 * Len(hs.elements)) |->
            IF i % 2 = 1 THEN Tok(hs.elements[(i + 1) \div 2].token) ELSE Tok("Base")]

\* The tokens and children of a node, in source order.
Parts(n) ==
    CASE n.kind \in {"Identifier", "NumericLiteral", "StringLiteral",
                     "FirstTemplateToken"} -> <<Tok(n.text)>>
      [] n.kind = "PropertyAccessExpression" ->
            <<Sub(n.expression), Tok("."), Sub(n.name)>>
      [] n.kind = "CallExpression" ->
            <<Sub(n.expression), Tok("(")>> \o Separated(n.arguments, ",") \o <<Tok(")")>>
      [] n.kind = "NewExpression" ->
            <<Tok("new"), Sub(n.expression), Tok("(")>>
                \o Separated(n.arguments, ",") \o <<Tok(")")>>
      [] n.kind = "PrefixUnaryExpression" -> <<Tok(n.operator), Sub(n.operand)>>
      [] n.kind = "TypeAssertionExpression" ->
            <<Tok("<"), Tok(n.type), Tok(">"), Sub(n.expression)>>
      [] n.kind = "ArrayLiteralExpression" ->
            <<Tok("[")>> \o Separated(n.elements, ",") \o <<Tok("]")>>
      [] n.kind = "ObjectLiteralExpression" ->
            <<Tok("{")>> \o Separated(n.properties, ",") \o <<Tok("}")>>
      [] n.kind = "PropertyAssignment" -> <<Sub(n.name), Tok(":"), Sub(n.initializer)>>
      [] n.kind = "ShorthandPropertyAssignment" -> <<Sub(n.name)>>
      [] n.kind = "SpreadAssignment" -> <<Tok("..."), Sub(n.expression)>>
      [] n.kind = "Block" -> <<Tok("{")>> \o All(n.statements) \o <<Tok("}")>>
      [] n.kind = "MethodDeclaration" ->
            <<Sub(n.name), Tok("("), Tok(")"), Sub(n.body)>>
      [] n.kind = "ArrowFunction" -> <<Tok("("), Tok(")"), Tok("=>"), Sub(n.body)>>
      [] n.kind = "FunctionExpression" ->
            <<Tok("function"), Tok("("), Tok(")"), Sub(n.body)>>
      [] n.kind = "VariableDeclaration" ->
            IF n.initializer = NoNode THEN <<Sub(n.name)>>
            ELSE <<Sub(n.name), Tok("="), Sub(n.initializer)>>
      [] n.kind = "VariableDeclarationList" ->
            <<Tok("const")>> \o Separated(n.declarations, ",")
      [] n.kind = "VariableStatement" -> <<Sub(n.declarationList), Tok(";")>>
      [] n.kind = "ExpressionStatement" -> <<Sub(n.expression), Tok(";")>>
      [] n.kind = "FunctionDeclaration" ->
            <<Tok("function"), Sub(n.name), Tok("("), Tok(")"), Sub(n.body)>>
      [] n.kind = "ClassDeclaration" ->
            <<Tok("class")>> \o (IF n.name = NoNode THEN <<>> ELSE <<Sub(n.name)>>)
                \o HeritageTokens(n.heritageClauses)
                \o <<Tok("{")>> \o All(n.members) \o <<Tok("}")>>
      [] n.kind \in {"Constructor", "PropertyDeclaration"} ->
            Toks(n.modifiers) \o <<Tok("member"), Tok(";")>>
      [] n.kind = "SourceFile" -> All(n.statements)

RECURSIVE GetText(_)
RECURSIVE PartsText(_)
PartsText(ps) ==
    IF ps = <<>> THEN <<>>
    ELSE (IF "tok" \in DOMAIN Head(ps) THEN <<Head(ps).tok>> ELSE GetText(Head(ps).node))
            \o PartsText(Tail(ps))

\* node.getText()
GetText(n) == PartsText(Parts(n))

\* node.getWidth()
GetWidth(n) == Len(GetText(n))

\* The children of a node that starts at `start`, each with its own getStart().
ChildrenAt(n, start) ==
    LET ps == Parts(n)
        idx == {i \in 1..Len(ps) : "node" \in DOMAIN ps[i]}
        RECURSIVE Collect(_)
        Collect(i) ==
            IF i > Len(ps) THEN <<>>
            ELSE (IF i \in idx
                  THEN <<[node |-> ps[i].node,
                          start |-> start + Len(PartsText(SubSeq(ps, 1, i - 1)))]>>
                  ELSE <<>>) \o Collect(i + 1)
    IN Collect(1)

-----------------------------------------------------------------------------
(* Regular expressions, as far as the rule uses them: the pattern source   *)
(* is a sequence of pattern characters, "^" and "$" are the anchors,       *)
(* "\\(" and "\\)" are the escaped parentheses, "(" and ")" a group, and   *)
(* every other character stands for itself.                                *)

NoRegex == [kind |-> "undefined"]

RECURSIVE GroupsBalanced(_, _)
GroupsBalanced(src, open) ==
    IF src = <<>> THEN open = 0
    ELSE IF Head(src) = "(" THEN GroupsBalanced(Tail(src), open + 1)
    ELSE IF Head(src) = ")" THEN open > 0 /\ GroupsBalanced(Tail(src), open - 1)
    ELSE GroupsBalanced(Tail(src), open)

\* Whether `new RegExp(src)` throws a SyntaxError.
RegExpThrows(src) == ~GroupsBalanced(src, 0)

\* new RegExp(src, flags): flags is "" or "g".
NewRegExp(src, flags) ==
    [kind |-> "RegExp", source |-> src, global |-> (flags = "g"), lastIndex |-> 0]

\* The end offset of a match of pattern `src` that begins at offset i of text,
\* or -1 when there is none.
RECURSIVE MatchAt(_, _, _)
MatchAt(src, text, i) ==
    IF src = <<>> THEN i
    ELSE LET c == Head(src) IN
         IF c = "^" THEN (IF i = 0 THEN MatchAt(Tail(src), text, i) ELSE -1)
         ELSE IF c = "$" THEN (IF i = Len(text) THEN MatchAt(Tail(src), text, i) ELSE -1)
         ELSE IF c \in {"(", ")"} THEN MatchAt(Tail(src), text, i)
         ELSE LET lit == IF c = "\\(" THEN "(" ELSE IF c = "\\)" THEN ")" ELSE c IN
              IF i < Len(text) /\ text[i + 1] = lit
              THEN MatchAt(Tail(src), text, i + 1)
              ELSE -1

\* The first offset >= from at which the pattern matches, or -1.
RECURSIVE Search(_, _, _)
Search(src, text, from) ==
    IF from > Len(text) THEN -1
    ELSE IF MatchAt(src, text, from) >= 0 THEN from
    ELSE Search(src, text, from + 1)

\* RegExp.prototype.test: the result, and the expression with its lastIndex
\* as test leaves it.
RegExpTest(re, text) ==
    LET from == IF re.global THEN re.lastIndex ELSE 0
        at == Search(re.source, text, from)
    IN IF at >= 0
       THEN [result |-> TRUE,
             regex |-> IF re.global
                       THEN [re EXCEPT !.lastIndex = MatchAt(re.source, text, at)]
                       ELSE re]
       ELSE [result |-> FALSE,
             regex |-> IF re.global THEN [re EXCEPT !.lastIndex = 0] ELSE re]

-----------------------------------------------------------------------------
(* The utilities the walkers call.                                         *)

\* AstUtils.isStatic(node)
IsStatic(node) == \E i \in 1..Len(node.modifiers) : node.modifiers[i] = "static"

\* AstUtils.getFunctionName(node): the text of the callee, or of its name.
GetFunctionName(node) ==
    IF "text" \in DOMAIN node.expression THEN node.expression.text
    ELSE IF "name" \in DOMAIN node.expression THEN node.expression.name.text
    ELSE "undefined"

\* AstUtils.getFunctionTarget(node): the text of what the method is called on.
GetFunctionTarget(node) ==
    IF node.expression.kind = "PropertyAccessExpression"
    THEN GetText(node.expression.expression)
    ELSE <<>>

\* AstUtils.isConstant(expression)
IsConstant(e) ==
    e.kind \in {"NumericLiteral", "StringLiteral", "FirstTemplateToken",
                "TrueKeyword", "FalseKeyword", "NullKeyword"}

\* AstUtils.isConstantExpression(expression)
RECURSIVE IsConstantExpression(_)
IsConstantExpression(e) ==
    IF e.kind = "PrefixUnaryExpression" THEN IsConstantExpression(e.operand)
    ELSE IsConstant(e)

\* MochaUtils.isDescribe(call)
IsDescribe(call) ==
    \/ GetFunctionName(call) = "describe"
    \/ GetText(call.expression) = <<"describe", ".", "skip">>

\* MochaUtils.isStatementDescribeCall(statement)
IsStatementDescribeCall(statement) ==
    /\ statement.kind = "ExpressionStatement"
    /\ statement.expression.kind = "CallExpression"
    /\ IsDescribe(statement.expression)

\* MochaUtils.isMochaTest(node)
IsMochaTest(node) ==
    \E i \in 1..Len(node.statements) : IsStatementDescribeCall(node.statements[i])

-----------------------------------------------------------------------------
(* Failures.                                                               *)

\* createFailure(node.getStart(), node.getWidth(), message): the message is
\* FAILURE_STRING and the trimmed text of the same node, so the span stands
\* for the failure.
CreateFailure(node, start) == [start |-> start, width |-> GetWidth(node)]

\* RuleWalker.addFailure: a failure equal to one already present is not added.
AddFailure(fs, f) ==
    IF \E i \in 1..Len(fs) : fs[i] = f THEN fs ELSE Append(fs, f)

\* How many of the failures are anchored at the span f.
CountAt(fs, f) == Cardinality({i \in 1..Len(fs) : fs[i] = f})

-----------------------------------------------------------------------------
(* mocha-no-side-effect-code: the classifier.                              *)

MomentText == <<"moment", "(", ")">>

\* What validateExpression works on: the failures and the ignore expression.
Work(fs, re) == [failures |-> fs, regex |-> re]

\* The initializers validateExpression recurses into for an object literal:
\* those of its PropertyAssignment elements.
RECURSIVE AssignmentInitializers(_)
AssignmentInitializers(props) ==
    IF props = <<>> THEN <<>>
    ELSE (IF Head(props).kind = "PropertyAssignment"
          THEN <<Head(props).initializer>> ELSE <<>>)
            \o AssignmentInitializers(Tail(props))

\* this.ignoreRegex != null && this.ignoreRegex.test(text)
IgnoreTest(re, text) ==
    IF re = NoRegex THEN [result |-> FALSE, regex |-> re] ELSE RegExpTest(re, text)

RECURSIVE ValidateExpression(_, _, _, _)
RECURSIVE ValidateEach(_, _, _, _)
ValidateEach(es, parentNode, parentStart, w) ==
    IF es = <<>> THEN w
    ELSE ValidateEach(Tail(es), parentNode, parentStart,
                      ValidateExpression(Head(es), parentNode, parentStart, w))

\* validateExpression(initializer, parentNode), parentNode starting at parentStart.
ValidateExpression(initializer, parentNode, parentStart, w) ==
    IF initializer = NoNode THEN w
    ELSE IF IsConstant(initializer) THEN w
    ELSE IF initializer.kind \in {"FunctionExpression", "ArrowFunction"} THEN w
    ELSE IF initializer.kind = "ArrayLiteralExpression"
         THEN ValidateEach(initializer.elements, parentNode, parentStart, w)
    ELSE IF initializer.kind = "FirstTemplateToken" THEN w
    ELSE IF initializer.kind = "TypeAssertionExpression"
         THEN ValidateExpression(initializer.expression, parentNode, parentStart, w)
    ELSE IF initializer.kind = "PropertyAccessExpression" THEN w
    ELSE IF initializer.kind = "Identifier" THEN w
    ELSE IF initializer.kind = "ObjectLiteralExpression"
         THEN ValidateEach(AssignmentInitializers(initializer.properties),
                           parentNode, parentStart, w)
    ELSE IF GetText(initializer) = MomentText THEN w
    ELSE IF initializer.kind = "CallExpression"
            /\ GetFunctionTarget(initializer) = MomentText THEN w
    ELSE IF initializer.kind = "NewExpression"
            /\ GetFunctionName(initializer) = "Date" THEN w
    ELSE LET t == IgnoreTest(w.regex, GetText(initializer)) IN
         IF t.result THEN Work(w.failures, t.regex)
         ELSE IF IsConstantExpression(initializer) THEN Work(w.failures, t.regex)
         ELSE Work(AddFailure(w.failures, CreateFailure(parentNode, parentStart)),
                   t.regex)

-----------------------------------------------------------------------------
(* mocha-no-side-effect-code: the options.                                 *)

NoValue == [kind |-> "undefined"]
StringValue(chars) == [kind |-> "string", chars |-> chars]
BooleanOption == [type |-> "boolean", ignore |-> NoValue]
NullOption == [type |-> "null", ignore |-> NoValue]
ObjectOption(ignore) == [type |-> "object", ignore |-> ignore]

\* parseOptions(): the ignore expression it leaves, or that it threw.  The
\* option list is folded from the left, as forEach runs; typeof null is
\* 'object', and reading a field of null throws.
RECURSIVE ParseFrom(_, _, _)
ParseFrom(opts, re, flags) ==
    IF opts = <<>> THEN [threw |-> FALSE, regex |-> re]
    ELSE LET opt == Head(opts) IN
         IF opt.type = "null" THEN [threw |-> TRUE, regex |-> re]
         ELSE IF opt.type = "object" /\ opt.ignore # NoValue
         THEN IF RegExpThrows(opt.ignore.chars)
              THEN [threw |-> TRUE, regex |-> re]
              ELSE ParseFrom(Tail(opts), NewRegExp(opt.ignore.chars, flags), flags)
         ELSE ParseFrom(Tail(opts), re, flags)

\* A parseOptions that builds the expression with the global flag.
ParseOptionsGlobal(opts) == ParseFrom(opts, NoRegex, "g")

\* A parseOptions that keeps running without the pattern that does not compile.
RECURSIVE ParseOptionsLenient(_)
ParseOptionsLenient(opts) ==
    IF opts = <<>> THEN [threw |-> FALSE, regex |-> NoRegex]
    ELSE LET rest == ParseOptionsLenient(SubSeq(opts, 1, Len(opts) - 1))
             opt == opts[Len(opts)]
         IN IF opt.type = "object" /\ opt.ignore # NoValue
               /\ ~RegExpThrows(opt.ignore.chars)
            THEN [threw |-> FALSE, regex |-> NewRegExp(opt.ignore.chars, "")]
            ELSE rest

ParseOptions(opts) == ParseFrom(opts, NoRegex, "")

-----------------------------------------------------------------------------
(* mocha-no-side-effect-code: the walk.                                    *)

\* The node kinds MochaNoSideEffectCodeRuleWalker has a handler for; every
\* other kind is walked into (RuleWalker's walkChildren).
HandledKinds ==
    {"CallExpression", "VariableDeclaration", "FunctionDeclaration", "ClassDeclaration"}

\* A pending call.  depth and top are history: how many describe calls the
\* node lies in, and the top-level statement it lies in.
Frame(op, node, start, depth, top, saved) ==
    [op |-> op, node |-> node, start |-> start, depth |-> depth, top |-> top,
     saved |-> saved]

\* visitNode(node): the calls of handlers it leads to, in order.
RECURSIVE VisitNodeFrames(_, _, _, _)
RECURSIVE WalkChildrenFrames(_, _, _)
WalkChildrenFrames(children, depth, top) ==
    IF children = <<>> THEN <<>>
    ELSE VisitNodeFrames(Head(children).node, Head(children).start, depth, top)
            \o WalkChildrenFrames(Tail(children), depth, top)

VisitNodeFrames(node, start, depth, top) ==
    IF node.kind \in HandledKinds
    THEN <<Frame("visitNode", node, start, depth, top, FALSE)>>
    ELSE WalkChildrenFrames(ChildrenAt(node, start), depth, top)

LifecycleNames == {"it", "before", "beforeEach", "after", "afterEach"}

\* A lifecycle test that misses afterEach.
IsLifecycleCallShort(functionName) ==
    functionName \in {"it", "before", "beforeEach", "after"}

\* Lines 100-102: the callee names whose calls are not visited.
IsLifecycleCall(functionName) == functionName \in LifecycleNames

\* A restore that clears the flag whenever a describe is left.
RestoreAlways(nestedSubscribe, current) == FALSE

\* A restore that never clears the flag.
RestoreNever(nestedSubscribe, current) == current

\* Lines 97-99: isInDescribe after super.visitCallExpression returned.
RestoreIsInDescribe(nestedSubscribe, current) ==
    IF nestedSubscribe = FALSE THEN FALSE ELSE current

\* A visitVariableDeclaration that anchors the failure at the initializer.
VariableDeclarationAtInitializer(node, start, flag, w) ==
    IF flag = TRUE /\ node.initializer # NoNode
    THEN ValidateExpression(node.initializer, node.initializer,
                            ChildrenAt(node, start)[2].start, w)
    ELSE w

\* visitVariableDeclaration(node): what it leaves of the failures.
VariableDeclarationBody(node, start, flag, w) ==
    IF flag = TRUE THEN ValidateExpression(node.initializer, node, start, w) ELSE w

\* visitCallExpression(node) up to the call of super or its return: the flag,
\* the failures, and the calls it makes next.
CallExpressionBody(node, start, depth, top, flag, w) ==
    LET functionName == GetFunctionName(node) IN
    IF functionName = "describe"
       \/ GetText(node.expression) = <<"describe", ".", "skip">>
    THEN [flag |-> TRUE, work |-> w, branch |-> "describe",
          push |-> WalkChildrenFrames(ChildrenAt(node, start), depth + 1, top)
                    \o <<Frame("describeReturn", node, start, depth, top, flag)>>]
    ELSE IF IsLifecycleCall(functionName)
    THEN [flag |-> flag, work |-> w, branch |-> "lifecycle", push |-> <<>>]
    ELSE IF flag
    THEN [flag |-> flag, work |-> ValidateExpression(node, node, start, w),
          branch |-> "raw", push |-> <<>>]
    ELSE [flag |-> flag, work |-> w, branch |-> "none", push |-> <<>>]

-----------------------------------------------------------------------------
(* The inputs: test files and option lists.                                *)

Num5 == NumericLiteral("5")
CallSome == Call(Identifier("someFunctionCall"), <<>>)
CallSome1 == Call(Identifier("someFunctionCall"), <<NumericLiteral("1")>>)
Moment == Call(Identifier("moment"), <<>>)
MomentAdd == Call(PropertyAccess(Moment, "add"), <<NumericLiteral("1")>>)

Const(n, e) == VariableStatement(<<VariableDeclaration(n, e)>>)
Describe(body) ==
    ExpressionStatement(Call(Identifier("describe"),
                             <<StringLiteral("'suite'"), ArrowFunction(body)>>))
DescribeSkip(body) ==
    ExpressionStatement(Call(PropertyAccess(Identifier("describe"), "skip"),
                             <<StringLiteral("'suite'"), FunctionExpression(body)>>))
Hook(name) ==
    ExpressionStatement(Call(Identifier(name), <<ArrowFunction(<<Const("x", CallSome)>>)>>))

\* The elements of the object literals given to the classifier.
ObjectElements ==
    {PropertyAssignment("a", Num5), PropertyAssignment("a", CallSome),
     ShorthandPropertyAssignment("b"), MethodDeclaration("m", <<Const("x", CallSome)>>),
     SpreadAssignment(Identifier("o")), SpreadAssignment(CallSome)}

ObjectLiterals ==
    {ObjectLiteral(<<>>)}
        \cup {ObjectLiteral(<<e>>) : e \in ObjectElements}
        \cup {ObjectLiteral(<<PropertyAssignment("k", Num5), e>>) : e \in ObjectElements}

\* The initializers given to the classifier.
Initializers ==
    {NoNode, Num5, StringLiteral("'s'"), TemplateLiteral("template"), Identifier("y"),
     PropertyAccess(Identifier("a"), "b"), ArrowFunction(<<Const("x", CallSome)>>),
     FunctionExpression(<<>>), ArrayLiteral(<<>>), ArrayLiteral(<<Num5, Num5>>),
     ArrayLiteral(<<Num5, CallSome>>), ArrayLiteral(<<CallSome, CallSome1>>),
     TypeAssertion("T", Num5), TypeAssertion("T", CallSome),
     Moment, MomentAdd, New(Identifier("Date"), <<>>), New(Identifier("Foo"), <<>>),
     CallSome, CallSome1, PrefixUnary("-", Num5), PrefixUnary("-", CallSome)}
        \cup ObjectLiterals

\* describe calls nested d deep; an unsafe call and an unsafe declaration
\* follow each inner describe.
RECURSIVE Nested(_)
Nested(d) ==
    IF d <= 1 THEN Describe(<<Const("x", CallSome)>>)
    ELSE Describe(<<Nested(d - 1), ExpressionStatement(CallSome), Const("z", CallSome)>>)

\* A describe.skip whose body holds every lifecycle call, a function and a class.
Lifecycle ==
    DescribeSkip(<<Hook("it"), Hook("before"), Hook("beforeEach"), Hook("after"),
                   Hook("afterEach"),
                   FunctionDeclaration("helper", <<Const("q", CallSome)>>),
                   ClassDeclaration(Identifier("K"), NoNode, <<>>),
                   Const("n", NoNode)>>)

TopStatements ==
    {Const("a", CallSome),
     VariableStatement(<<VariableDeclaration("a", Num5),
                         VariableDeclaration("b", CallSome1)>>),
     ExpressionStatement(CallSome),
     Lifecycle}
        \cup {Nested(d) : d \in 1..MaxDepth}

RECURSIVE SeqsUpTo(_, _)
SeqsUpTo(S, n) ==
    IF n = 0 THEN {<<>>}
    ELSE LET shorter == SeqsUpTo(S, n - 1) IN
         shorter \cup {Append(q, x) : q \in {r \in shorter : Len(r) = n - 1}, x \in S}

\* The files: every short sequence of top-level statements, and for every
\* initializer a file that declares it at the top level and in a describe.
SourceFiles ==
    {SourceFile(ss) : ss \in SeqsUpTo(TopStatements, MaxStatements) \ {<<>>}}
        \cup {SourceFile(<<Const("g", e), Describe(<<Const("v", e)>>)>>) : e \in Initializers}

ExactPattern == <<"^", "someFunctionCall", "\\(", "\\)", "$">>
LoosePattern == <<"someFunctionCall">>
BrokenPattern == <<"someFunctionCall", "(">>

OptionValues ==
    {BooleanOption, NullOption, ObjectOption(NoValue),
     ObjectOption(StringValue(ExactPattern)), ObjectOption(StringValue(LoosePattern)),
     ObjectOption(StringValue(BrokenPattern))}

OptionLists == SeqsUpTo(OptionValues, MaxOptions)

-----------------------------------------------------------------------------
(* mocha-no-side-effect-code: the state machine.                           *)

NoOptions == <<>>

\* What is remembered of the handler that ran last: the node and where it
\* starts, the describe calls and the top-level statement it lies in,
\* isInDescribe and the failures as the handler found them (for
\* describeReturn, flag is the saved nestedSubscribe), whether it threw,
\* the branch visitCallExpression took, and the constructor's options.
Seen(op, node, start, depth, top, flag, before, threw, branch, options) ==
    [op |-> op, node |-> node, start |-> start, depth |-> depth, top |-> top,
     flag |-> flag, before |-> before, threw |-> threw, branch |-> branch,
     options |-> options]

Init ==
    /\ pc = "new"
    /\ sourceFile \in SourceFiles
    /\ ignoreRegex = NoRegex
    /\ isInDescribe = FALSE
    /\ failures = <<>>
    /\ stack = <<>>
    /\ faults = 0
    /\ faultTops = {}
    /\ hookSpans = {}
    /\ visits = 0
    /\ last = Seen("none", NoNode, 0, 0, 0, FALSE, <<>>, FALSE, "none", NoOptions)

PcFor(s) == IF s = <<>> THEN "done" ELSE "walking"

\* visitSourceFile(node) up to its loop: the loop over the statements is
\* pending when the file is a Mocha test.
SourceFileFrames(node) ==
    IF IsMochaTest(node) /\ node.statements # <<>>
    THEN <<Frame("forEachStatement", NoNode, 0, 0, 1, FALSE)>>
    ELSE <<>>

\* Rule.apply: the walker is constructed (parseOptions runs) and, unless
\* that threw, walk calls visitNode, which calls visitSourceFile.
Construct ==
    /\ pc = "new"
    /\ \E opts \in OptionLists :
        LET r == ParseOptions(opts) IN
        /\ last' = Seen("constructor", NoNode, 0, 0, 0, FALSE, failures, r.threw, "none", opts)
        /\ IF r.threw
           THEN /\ pc' = "configError"
                /\ UNCHANGED <<ignoreRegex, stack>>
           ELSE /\ ignoreRegex' = r.regex
                /\ stack' = SourceFileFrames(sourceFile)
                /\ pc' = PcFor(stack')
    /\ UNCHANGED <<sourceFile, isInDescribe, failures, faults, faultTops, hookSpans, visits>>

\* The declarations of a variable statement, each with its start.
DeclarationsAt(statement, start) ==
    ChildrenAt(statement.declarationList, start)

RECURSIVE ValidateDeclarations(_, _)
ValidateDeclarations(ds, w) ==
    IF ds = <<>> THEN w
    ELSE ValidateDeclarations(Tail(ds),
            ValidateExpression(Head(ds).node.initializer, Head(ds).node, Head(ds).start, w))

\* The loop frame for the statement after statement i, if there is one.
NextStatement(i, start) ==
    IF i < Len(sourceFile.statements)
    THEN <<Frame("forEachStatement", NoNode,
                 start + GetWidth(sourceFile.statements[i]), 0, i + 1, FALSE)>>
    ELSE <<>>

\* One round of the loop of visitSourceFile (lines 57-72).
VisitSourceFileStatement ==
    /\ pc = "walking"
    /\ stack # <<>>
    /\ Head(stack).op = "forEachStatement"
    /\ LET i == Head(stack).top
           start == Head(stack).start
           statement == sourceFile.statements[i]
           w1 == IF statement.kind = "VariableStatement"
                 THEN ValidateDeclarations(DeclarationsAt(statement, start),
                                           Work(failures, ignoreRegex))
                 ELSE Work(failures, ignoreRegex)
           c == IF IsStatementDescribeCall(statement)
                THEN CallExpressionBody(statement.expression, start, 0, i, isInDescribe, w1)
                ELSE [flag |-> isInDescribe, work |-> w1, branch |-> "none", push |-> <<>>]
       IN /\ failures' = c.work.failures
          /\ ignoreRegex' = c.work.regex
          /\ isInDescribe' = c.flag
          /\ stack' = c.push \o NextStatement(i, start) \o Tail(stack)
          /\ pc' = PcFor(stack')
          /\ last' = Seen("visitSourceFile", statement, start, 0, i, isInDescribe, failures,
                          FALSE, c.branch, NoOptions)
    /\ UNCHANGED <<sourceFile, faults, faultTops, hookSpans, visits>>

TopIs(kind) ==
    /\ pc = "walking"
    /\ stack # <<>>
    /\ Head(stack).op = "visitNode"
    /\ Head(stack).node.kind = kind

\* visitNode of a call expression: visitCallExpression (lines 90-109).
VisitCallExpression ==
    /\ TopIs("CallExpression")
    /\ LET f == Head(stack)
           c == CallExpressionBody(f.node, f.start, f.depth, f.top, isInDescribe,
                                   Work(failures, ignoreRegex))
       IN /\ failures' = c.work.failures
          /\ ignoreRegex' = c.work.regex
          /\ isInDescribe' = c.flag
          /\ stack' = c.push \o Tail(stack)
          /\ pc' = PcFor(stack')
          /\ hookSpans' = IF GetFunctionName(f.node) \in LifecycleNames
                          THEN hookSpans \cup {CreateFailure(f.node, f.start)}
                          ELSE hookSpans
          /\ last' = Seen("visitCallExpression", f.node, f.start, f.depth, f.top,
                          isInDescribe, failures, FALSE, c.branch, NoOptions)
    /\ UNCHANGED <<sourceFile, faults, faultTops, visits>>

\* The rest of visitCallExpression after super.visitCallExpression returned
\* (lines 97-99).
DescribeReturn ==
    /\ pc = "walking"
    /\ stack # <<>>
    /\ Head(stack).op = "describeReturn"
    /\ LET f == Head(stack) IN
       /\ isInDescribe' = RestoreIsInDescribe(f.saved, isInDescribe)
       /\ stack' = Tail(stack)
       /\ pc' = PcFor(stack')
       /\ last' = Seen("describeReturn", f.node, f.start, f.depth, f.top, f.saved,
                       failures, FALSE, "describe", NoOptions)
    /\ UNCHANGED <<sourceFile, ignoreRegex, failures, faults, faultTops, hookSpans, visits>>

\* visitNode of a variable declaration: visitVariableDeclaration (lines 76-80).
VisitVariableDeclaration ==
    /\ TopIs("VariableDeclaration")
    /\ LET f == Head(stack)
           w == VariableDeclarationBody(f.node, f.start, isInDescribe,
                                        Work(failures, ignoreRegex))
       IN /\ failures' = w.failures
          /\ ignoreRegex' = w.regex
          /\ stack' = Tail(stack)
          /\ pc' = PcFor(stack')
          /\ last' = Seen("visitVariableDeclaration", f.node, f.start, f.depth, f.top,
                          isInDescribe, failures, FALSE, "none", NoOptions)
    /\ UNCHANGED <<sourceFile, isInDescribe, faults, faultTops, hookSpans, visits>>

\* visitNode of a function declaration: visitFunctionDeclaration (lines 82-84),
\* which is empty, so that nothing inside is visited.
VisitFunctionDeclaration ==
    /\ TopIs("FunctionDeclaration")
    /\ stack' = Tail(stack)
    /\ pc' = PcFor(stack')
    /\ last' = Seen("visitFunctionDeclaration", Head(stack).node, Head(stack).start,
                    Head(stack).depth, Head(stack).top, isInDescribe, failures, FALSE,
                    "none", NoOptions)
    /\ UNCHANGED <<sourceFile, ignoreRegex, isInDescribe, failures, faults, faultTops,
                   hookSpans, visits>>

\* visitNode of a class declaration: visitClassDeclaration (lines 86-88),
\* which is empty, so that nothing inside is visited.
VisitClassDeclaration ==
    /\ TopIs("ClassDeclaration")
    /\ stack' = Tail(stack)
    /\ pc' = PcFor(stack')
    /\ last' = Seen("visitClassDeclaration", Head(stack).node, Head(stack).start,
                    Head(stack).depth, Head(stack).top, isInDescribe, failures, FALSE,
                    "none", NoOptions)
    /\ UNCHANGED <<sourceFile, ignoreRegex, isInDescribe, failures, faults, faultTops,
                   hookSpans, visits>>

\* Whether the pending call inspects a node, so that it can throw.
Inspects(f) ==
    \/ f.op = "visitNode" /\ f.node.kind = "CallExpression"
    \/ f.op = "visitNode" /\ f.node.kind = "VariableDeclaration"
          /\ isInDescribe /\ f.node.initializer # NoNode
    \/ f.op = "forEachStatement"
          /\ LET statement == sourceFile.statements[f.top] IN
             \/ IsStatementDescribeCall(statement)
             \/ /\ statement.kind = "VariableStatement"
                /\ \E i \in 1..Len(statement.declarationList.declarations) :
                      statement.declarationList.declarations[i].initializer # NoNode

\* ErrorTolerantWalker.visitNode: what is left of the stack when the pending
\* call throws.  A handler called by visitNode is dropped alone; the loop of
\* visitSourceFile calls validateExpression and visitCallExpression itself,
\* so the exception leaves the loop and visitSourceFile, and is caught by
\* the visitNode of the source file.
Unwind(s) ==
    IF Head(s).op = "visitNode" THEN Tail(s) ELSE <<>>

\* The pending handler throws while it inspects its node.
Throw ==
    /\ pc = "walking"
    /\ stack # <<>>
    /\ faults < MaxFaults
    /\ Inspects(Head(stack))
    /\ stack' = Unwind(stack)
    /\ pc' = PcFor(stack')
    /\ faults' = faults + 1
    /\ faultTops' = faultTops \cup {Head(stack).top}
    /\ last' = Seen(Head(stack).op, Head(stack).node, Head(stack).start,
                    Head(stack).depth, Head(stack).top, isInDescribe, failures, TRUE,
                    "none", NoOptions)
    /\ UNCHANGED <<sourceFile, ignoreRegex, isInDescribe, failures, hookSpans, visits>>

Next ==
    \/ Construct
    \/ VisitSourceFileStatement
    \/ VisitCallExpression
    \/ DescribeReturn
    \/ VisitVariableDeclaration
    \/ VisitFunctionDeclaration
    \/ VisitClassDeclaration
    \/ Throw

Spec == Init /\ [][Next]_vars

-----------------------------------------------------------------------------
(* no-stateless-class.                                                     *)

\* The callbacks isClassStateful hands to Utils.exists (lines 45-47, 53-61).
IsExtendsClause(clause) == clause.token = "extends"

IsStatefulElement(classElement) ==
    IF classElement.kind = "Constructor" THEN FALSE
    ELSE IF IsStatic(classElement) THEN FALSE
    ELSE TRUE

Callback(predicate, element) ==
    CASE predicate = "extendsClause" -> IsExtendsClause(element)
      [] predicate = "statefulElement" -> IsStatefulElement(element)

\* Utils.exists(list, predicate): false for a list that is null or undefined.
Exists(list, predicate) ==
    IF list = NoNode THEN FALSE
    ELSE \E i \in 1..Len(list.elements) : Callback(predicate, list.elements[i])

\* An isClassStateful that takes a class without members for stateful.
IsClassStatefulWhenEmpty(node) ==
    IF Exists(node.heritageClauses, "extendsClause") THEN TRUE
    ELSE IF Len(node.members) = 0 THEN TRUE
    ELSE Exists(NodeArray(node.members), "statefulElement")

\* An isClassStateful that does not look at the heritage clauses.
IsClassStatefulByMembers(node) ==
    IF Len(node.members) = 0 THEN FALSE
    ELSE Exists(NodeArray(node.members), "statefulElement")

\* isClassStateful(node) (lines 44-62)
IsClassStateful(node) ==
    IF Exists(node.heritageClauses, "extendsClause") THEN TRUE
    ELSE IF Len(node.members) = 0 THEN FALSE
    ELSE Exists(NodeArray(node.members), "statefulElement")

\* The failure visitClassDeclaration creates (lines 38-39).
CreateClassFailure(node, start) ==
    [start |-> start, width |-> GetWidth(node),
     className |-> IF node.name = NoNode THEN "<unknown>" ELSE node.name.text]

ClassElements ==
    {ClassElement("Constructor", <<>>),
     ClassElement("PropertyDeclaration", <<>>),
     ClassElement("PropertyDeclaration", <<"private", "static">>)}

HeritageLists ==
    {NoNode, NodeArray(<<HeritageClause("extends")>>),
     NodeArray(<<HeritageClause("implements")>>),
     NodeArray(<<HeritageClause("extends"), HeritageClause("implements")>>)}

\* The class declarations: named ones with every heritage, and unnamed ones
\* (export default class) without heritage clauses.
ClassDeclarations ==
    {ClassDeclaration(Identifier("Foo"), hs, ms) :
        hs \in HeritageLists, ms \in SeqsUpTo(ClassElements, MaxMembers)}
        \cup {ClassDeclaration(NoNode, NoNode, ms) :
                ms \in SeqsUpTo(ClassElements, MaxMembers)}

ClassInit ==
    /\ pc = "walking"
    /\ sourceFile = NoNode
    /\ ignoreRegex = NoRegex
    /\ isInDescribe = FALSE
    /\ failures = <<>>
    /\ stack = <<>>
    /\ faults = 0
    /\ faultTops = {}
    /\ hookSpans = {}
    /\ visits = 0
    /\ last = Seen("none", NoNode, 0, 0, 0, FALSE, <<>>, FALSE, "none", NoOptions)

\* Where the class declaration after the last one visited starts.
NextStart == IF last.node = NoNode THEN 0 ELSE last.start + GetWidth(last.node)

\* NoStatelessClassRuleWalker.visitClassDeclaration (lines 36-42), for the
\* next class declaration of the file, whichever it is.
StatelessVisitClassDeclaration ==
    /\ pc = "walking"
    /\ visits < MaxClasses
    /\ \E node \in ClassDeclarations :
        /\ failures' = IF ~IsClassStateful(node)
                       THEN AddFailure(failures, CreateClassFailure(node, NextStart))
                       ELSE failures
        /\ last' = Seen("visitClassDeclaration", node, NextStart, 0, 0, FALSE, failures,
                        FALSE, "none", NoOptions)
    /\ visits' = visits + 1
    /\ UNCHANGED <<pc, sourceFile, ignoreRegex, isInDescribe, stack, faults, faultTops,
                   hookSpans>>

\* The file holds no further class declaration: applyWithWalker returns.
StatelessReturn ==
    /\ pc = "walking"
    /\ pc' = "done"
    /\ UNCHANGED <<sourceFile, ignoreRegex, isInDescribe, failures, stack, faults,
                   faultTops, hookSpans, visits, last>>

ClassNext ==
    \/ StatelessVisitClassDeclaration
    \/ StatelessReturn

ClassSpec == ClassInit /\ [][ClassNext]_vars

-----------------------------------------------------------------------------
(* The claims about no-stateless-class, properties of ClassSpec.           *)

Range(q) == {q[i] : i \in 1..Len(q)}

\* The class declaration visitClassDeclaration has just been called with.
ClassVisited == last.op = "visitClassDeclaration" /\ visits > 0

HasExtendsClause(node) ==
    /\ node.heritageClauses # NoNode
    /\ \E c \in Range(node.heritageClauses.elements) : c.token = "extends"

OnlyConstructorsAndStatics(node) ==
    \A m \in Range(node.members) :
        m.kind = "Constructor" \/ "static" \in Range(m.modifiers)

\* The diagnostic of the class just visited: its start, its width, its name.
ClassDiagnostic ==
    [start |-> last.start, width |-> Len(GetText(last.node)),
     className |-> IF last.node.name = NoNode THEN "<unknown>" ELSE last.node.name.text]

ClassFlagged ==
    /\ failures = Append(last.before, ClassDiagnostic)
    /\ CountAt(failures, ClassDiagnostic) = 1

ClassNotFlagged == failures = last.before

\* C1, as the claim states it: a class declaration with zero members and no
\* extends clause is exempt, visitClassDeclaration adds no diagnostic for it.
C1_EmptyClassExempt ==
    (ClassVisited /\ last.node.members = <<>> /\ ~HasExtendsClause(last.node))
        => ClassNotFlagged

\* C1, amended: a class declaration with zero members and no extends clause
\* is flagged, visitClassDeclaration adds exactly one diagnostic for it, at
\* the start and with the width of the class node.
C1_EmptyClassFlagged ==
    (ClassVisited /\ last.node.members = <<>> /\ ~HasExtendsClause(last.node))
        => ClassFlagged

\* An empty class without heritage, visited second, has been flagged.
C1_Witness ==
    /\ ClassVisited
    /\ last.node.members = <<>>
    /\ last.node.heritageClauses = NoNode
    /\ last.start > 0
    /\ ClassFlagged

\* C2: a class declaration with at least one member is flagged (exactly one
\* diagnostic, at the start and with the width of the class node) if and only
\* if it has no extends clause and every member is a constructor or static;
\* with a member that is neither, or with an extends clause whatever the
\* members, no diagnostic is added.  An implements clause is not inheritance.
C2_FlaggedIffStateless ==
    (ClassVisited /\ last.node.members # <<>>)
        => /\ ClassFlagged <=> (~HasExtendsClause(last.node)
                                 /\ OnlyConstructorsAndStatics(last.node))
           /\ ~ClassFlagged => ClassNotFlagged
           /\ (\E m \in Range(last.node.members) :
                 m.kind # "Constructor" /\ "static" \notin Range(m.modifiers))
                 => ClassNotFlagged
           /\ HasExtendsClause(last.node) => ClassNotFlagged

\* A class with a constructor and a static member and no heritage, visited
\* second, has been flagged.
C2_Witness ==
    /\ ClassVisited
    /\ last.node.heritageClauses = NoNode
    /\ Len(last.node.members) = 2
    /\ last.node.members[1].kind = "Constructor"
    /\ "static" \in Range(last.node.members[2].modifiers)
    /\ last.start > 0
    /\ ClassFlagged

-----------------------------------------------------------------------------
(* The claims about mocha-no-side-effect-code, properties of Spec.         *)

\* The span of the node the last handler was called with.
SeenSpan == [start |-> last.start, width |-> Len(GetText(last.node))]

\* Whether span a lies within span b.
Within(a, b) == b.start <= a.start /\ a.start + a.width <= b.start + b.width

\* Whether the pattern matches somewhere in the text, whatever was tested before.
PatternMatches(src, text) == \E i \in 0..Len(text) : MatchAt(src, text, i) >= 0

\* Whether the configured ignore pattern matches the text of e.
Ignored(e) == ignoreRegex # NoRegex /\ PatternMatches(ignoreRegex.source, GetText(e))

\* A call that validateExpression knows nothing about.
IsPlainCall(e) ==
    /\ e.kind = "CallExpression"
    /\ GetText(e) # MomentText
    /\ (e.expression.kind = "PropertyAccessExpression"
          => GetText(e.expression.expression) # MomentText)

\* visitVariableDeclaration has just run on a declaration that lies in a
\* describe callback.
DeclarationVisited ==
    /\ last.op = "visitVariableDeclaration"
    /\ ~last.threw
    /\ last.depth >= 1

\* Where the top-level statement j starts.
RECURSIVE StatementStart(_)
StatementStart(j) ==
    IF j = 1 THEN 0 ELSE StatementStart(j - 1) + Len(GetText(sourceFile.statements[j - 1]))

\* The spans of the declarations of top-level statement j whose initializer
\* is an unknown call, which is a violation when no ignore pattern is set.
UnsafeDeclarationSpans(j) ==
    LET statement == sourceFile.statements[j] IN
    IF statement.kind # "VariableStatement" THEN {}
    ELSE {[start |-> d.start, width |-> Len(GetText(d.node))] :
            d \in {c \in Range(ChildrenAt(statement.declarationList, StatementStart(j))) :
                     c.node.initializer \in {CallSome, CallSome1}}}

\* C3: in a recognized test file, when the inspection of one top-level
\* statement throws, every violation in the other top-level statements is
\* still reported by the end of the run.
C3_FaultSparesOtherStatements ==
    (pc = "done" /\ IsMochaTest(sourceFile) /\ ignoreRegex = NoRegex)
        => \A j \in 1..Len(sourceFile.statements) :
              j \notin faultTops => UnsafeDeclarationSpans(j) \subseteq Range(failures)

\* C4: when the walker returns from the subtree of a describe call,
\* isInDescribe is what it was just before the call was entered, also when a
\* handler threw inside the subtree; it is false whenever the loop over the
\* top-level statements goes on, and at the end of the run.
C4_FlagRestored ==
    /\ last.op = "describeReturn" => isInDescribe = last.flag
    /\ (stack # <<>> /\ Head(stack).op = "forEachStatement") => isInDescribe = FALSE
    /\ pc = "done" => isInDescribe = FALSE

\* The walker has returned from an outermost describe call in whose subtree
\* a handler threw.
C4_Witness ==
    /\ last.op = "describeReturn"
    /\ last.depth = 0
    /\ last.top \in faultTops
    /\ isInDescribe = FALSE

\* C5: visitCallExpression on a call of it, before, beforeEach, after or
\* afterEach adds no failure, leaves isInDescribe unchanged and makes no
\* visit inside the call; no failure is ever anchored at such a call or
\* inside it.
C5_LifecycleExempt ==
    /\ (last.op = "visitCallExpression" /\ ~last.threw
          /\ GetFunctionName(last.node) \in LifecycleNames)
        => /\ failures = last.before
           /\ isInDescribe = last.flag
           /\ \A f \in Range(stack) :
                 f.op = "visitNode"
                     => ~Within([start |-> f.start, width |-> Len(GetText(f.node))],
                                SeenSpan)
    /\ \A d \in Range(failures) : \A h \in hookSpans : ~Within(d, h)

\* visitCallExpression has run on an afterEach call inside a describe whose
\* callback declares x = someFunctionCall().
C5_Witness ==
    /\ last.op = "visitCallExpression"
    /\ ~last.threw
    /\ GetFunctionName(last.node) = "afterEach"
    /\ last.node.arguments[1].body.statements[1] = Const("x", CallSome)
    /\ last.flag = TRUE
    /\ SeenSpan \in hookSpans

\* C6: for a variable declaration directly inside a describe callback, a
\* literal initializer yields no diagnostic, and an initializer that is an
\* unknown call the ignore pattern does not match yields exactly one, with
\* the start and width of the declaration; none has the span of the call.
C6_DeclarationDiagnostic ==
    DeclarationVisited
        => /\ last.node.initializer.kind \in {"NumericLiteral", "StringLiteral"}
                => failures = last.before
           /\ (IsPlainCall(last.node.initializer) /\ ~Ignored(last.node.initializer))
                => /\ failures = Append(last.before, SeenSpan)
                   /\ CountAt(failures, SeenSpan) = 1
                   /\ [start |-> last.start + 2,
                       width |-> Len(GetText(last.node.initializer))]
                        \notin Range(failures)

\* The declaration v = someFunctionCall() in a describe callback has been
\* reported, with the span of the declaration.
C6_Witness ==
    /\ DeclarationVisited
    /\ last.node = VariableDeclaration("v", CallSome)
    /\ ignoreRegex = NoRegex
    /\ SeenSpan \in Range(failures)
    /\ SeenSpan.width = 5

\* C7: with the ignore pattern ^someFunctionCall\(\)$ a declaration whose
\* initializer is someFunctionCall() yields no diagnostic and one whose
\* initializer is someFunctionCall(1) yields one; an unknown call or new
\* expression is suppressed if and only if the configured pattern matches its
\* text, whatever was tested before it in the run.
C7_IgnorePattern ==
    (DeclarationVisited /\ ignoreRegex # NoRegex)
        => /\ (ignoreRegex.source = ExactPattern /\ last.node.initializer = CallSome)
                => failures = last.before
           /\ (ignoreRegex.source = ExactPattern /\ last.node.initializer = CallSome1)
                => failures = Append(last.before, SeenSpan)
           /\ (IsPlainCall(last.node.initializer)
                 \/ (last.node.initializer.kind = "NewExpression"
                       /\ last.node.initializer.expression.text # "Date"))
                => (failures = last.before <=> Ignored(last.node.initializer))

\* With the pattern ^someFunctionCall\(\)$, the second declaration of
\* someFunctionCall() of the run has been suppressed.
C7_Witness ==
    /\ DeclarationVisited
    /\ ignoreRegex # NoRegex
    /\ ignoreRegex.source = ExactPattern
    /\ last.node.initializer = CallSome
    /\ sourceFile.statements[1] = Const("g", CallSome)
    /\ failures = <<>>

\* Whether an option carries an ignore string that does not compile.
HasBrokenIgnore(opts) ==
    \E o \in Range(opts) :
        o.type = "object" /\ o.ignore # NoValue /\ ~GroupsBalanced(o.ignore.chars, 0)

\* C8: when an option carries an ignore string that does not compile, the
\* construction of the walker fails; after a failed construction no node has
\* been visited and no diagnostic produced, and the run does not go on.
C8_BrokenOptionsFailFast ==
    /\ (last.op = "constructor" /\ HasBrokenIgnore(last.options)) => pc = "configError"
    /\ pc = "configError"
        => /\ last.op = "constructor"
           /\ failures = <<>>
           /\ stack = <<>>
    /\ HasBrokenIgnore(last.options) => pc # "walking" /\ pc # "done"

\* The construction failed on a broken ignore string, for a test file whose
\* first statement is a violation.
C8_Witness ==
    /\ pc = "configError"
    /\ HasBrokenIgnore(last.options)
    /\ IsMochaTest(sourceFile)
    /\ sourceFile.statements[1] = Const("a", CallSome)

\* The expression an element of an object literal takes its value from.
ValueExpression(element) ==
    CASE element.kind = "PropertyAssignment" -> element.initializer
      [] element.kind = "ShorthandPropertyAssignment" -> element.name
      [] element.kind = "MethodDeclaration" -> FunctionExpression(element.body.statements)
      [] element.kind = "SpreadAssignment" -> element.expression

\* Whether the classifier, given e alone, reports nothing.
IndependentlySafe(e) ==
    ValidateExpression(e, e, 0, Work(<<>>, ignoreRegex)).failures = <<>>

\* C9: an object literal given to the classifier produces no diagnostic if
\* and only if the value expression of every one of its elements is
\* independently safe, whatever the kinds of the elements.
C9_ObjectLiteralConjunction ==
    (DeclarationVisited /\ last.node.initializer.kind = "ObjectLiteralExpression")
        => (failures = last.before
              <=> \A el \in Range(last.node.initializer.properties) :
                     IndependentlySafe(ValueExpression(el)))

\* C10: isInDescribe is true at every node visited inside a describe; when
\* an inner describe is left it stays true, and it is cleared when the
\* outermost is left; an unsafe call and an unsafe declaration that follow a
\* nested describe inside the outer one are reported.
C10_NestedDescribe ==
    /\ (stack # <<>> /\ Head(stack).op = "visitNode" /\ Head(stack).depth >= 1)
        => isInDescribe = TRUE
    /\ last.op = "describeReturn"
        => isInDescribe = (last.depth >= 1)
    /\ (last.op \in {"visitCallExpression", "visitVariableDeclaration"}
          /\ ~last.threw /\ last.depth >= 1 /\ ignoreRegex = NoRegex
          /\ (last.node = CallSome \/ last.node = Const("z", CallSome).declarationList.declarations[1]))
        => SeenSpan \in Range(failures)

\* The call someFunctionCall() that follows the inner describe of a nested
\* pair has been reported, after the inner describe was left.
C10_Witness ==
    /\ last.op = "visitCallExpression"
    /\ last.node = CallSome
    /\ last.depth = 1
    /\ last.flag = TRUE
    /\ SeenSpan \in Range(failures)
    /\ Len(failures) >= 2

=============================================================================
